---- MODULE Spec2Model ----
(***************************************************************************)
(* A model of the rust-nbt codec: the NBTTag tree (lib.rs), the encoder    *)
(* (write.rs), the nom-based decoder (read.rs) and the NBTFile entry       *)
(* points as_bytes / from_bytes (file.rs).                                 *)
(*                                                                         *)
(* Representation.                                                         *)
(*  - a byte is a number in 0..255, a Vec<u8> / &[u8] a sequence of bytes; *)
(*  - a String is the sequence of its UTF-8 bytes (len() is Len);          *)
(*  - an NBTTag is the pair <<variant, payload>>, e.g. <<"TagByte", 7>>;   *)
(*  - a HashMap<String, NBTTag> is a set of <<key, value>> pairs with      *)
(*    pairwise different keys, so that equality ignores the order;         *)
(*  - i8, i16, i32 are their signed values; TLC's integers are 32 bits     *)
(*    wide, so an i64, an f64 bit pattern or a usize is the pair           *)
(*    <<high half, low half>> of its two's complement 64 bits, each half   *)
(*    read as an i32; an f32 is its 32 bit pattern read as an i32.         *)
(***************************************************************************)
EXTENDS Integers, Sequences, FiniteSets, TLC

VARIABLES doc, orig, bytes, enc, dec

vars == <<doc, orig, bytes, enc, dec>>

(***************************************************************************)
(* Fixed-width big-endian integers (byteorder write_iN, nom be_iN).        *)
(***************************************************************************)

\* The w low bytes of the two's complement of v, most significant first.
RECURSIVE be_bytes(_, _)
be_bytes(v, w) ==
    IF w = 0 THEN <<>> ELSE Append(be_bytes(v \div 256, w - 1), v % 256)

\* The signed value of a big-endian two's complement byte string (1..4 bytes).
RECURSIVE be_signed(_)
be_signed(b) ==
    IF Len(b) = 1
    THEN IF b[1] >= 128 THEN b[1] - 256 ELSE b[1]
    ELSE be_signed(SubSeq(b, 1, Len(b) - 1)) * 256 + b[Len(b)]

\* The unsigned value of a big-endian 16 bit byte string.
be_unsigned16(b) == b[1] * 256 + b[2]

\* A 64 bit quantity as its two 32 bit halves.
be_bytes64(v) == be_bytes(v[1], 4) \o be_bytes(v[2], 4)
be_signed64(b) == <<be_signed(SubSeq(b, 1, 4)), be_signed(SubSeq(b, 5, 8))>>

\* `len as usize` of an i32 on a 64 bit target: sign extension to 64 bits.
as_usize(len) == IF len < 0 THEN <<-1, len>> ELSE <<0, len>>

\* A count (0 .. 2^31-1) as a usize.
usize_of(count) == <<0, count>>

\* `len() as u16`: truncation to the low 16 bits.
as_u16(len) == len % 65536

(***************************************************************************)
(* Results.                                                                *)
(***************************************************************************)

\* Result<Vec<u8>, String> of the encoder.
Ok(val) == [ok |-> TRUE, val |-> val]
Err(msg) == [ok |-> FALSE, msg |-> msg]

\* Option<&String>.
None == [some |-> FALSE]
Some(x) == [some |-> TRUE, val |-> x]

\* nom::IResult<&[u8], O>: Ok((rest, val)), Err(Error), Err(Incomplete); a
\* panic inside a parser (unwrap) unwinds through every caller.  `log` is a
\* history of the parse, not program state: the set of events
\*   <<"unknown_id", tag_type, 0>>  read_tag_known reached its `_` arm,
\*   <<"bad_utf8", 0, 0>>           str::from_utf8 returned Err,
\*   <<"list_len", len, 0>>         read_tag_list read the count field len,
\*   <<"list", len, n>>             and returned a TagList of n elements,
\*   <<"array_len", len, 0>>        an array parser read the count field len,
\*   <<"array", len, n>>            and returned an array of n elements,
\* that happened while the result was computed, abandoned branches included.
Done(rest, val, log) == [kind |-> "Ok", rest |-> rest, val |-> val, log |-> log]
Fail(kind, log) == [kind |-> kind, log |-> log]

\* the result r of a parser that ran after the events in log
after(log, r) == [r EXCEPT !.log = log \cup @]

(***************************************************************************)
(* The tag tree (lib.rs, enum NBTTag).                                     *)
(***************************************************************************)

Tag(variant, payload) == <<variant, payload>>

TagEnd == <<"TagEnd", 0>>

\* insert with the slip of keeping the value of an existing key
\* (entry(k).or_insert(v))
insert_keep(map, k, v) ==
    IF \E e \in map : e[1] = k THEN map ELSE map \cup {<<k, v>>}

\* HashMap::insert: the value of an existing key is replaced.
insert(map, k, v) == {e \in map : e[1] # k} \cup {<<k, v>>}

\* write.rs get_tag_id
get_tag_id(tag) ==
    CASE tag[1] = "TagByte" -> Some(1)
      [] tag[1] = "TagShort" -> Some(2)
      [] tag[1] = "TagInt" -> Some(3)
      [] tag[1] = "TagLong" -> Some(4)
      [] tag[1] = "TagFloat" -> Some(5)
      [] tag[1] = "TagDouble" -> Some(6)
      [] tag[1] = "TagByteArray" -> Some(7)
      [] tag[1] = "TagString" -> Some(8)
      [] tag[1] = "TagList" -> Some(9)
      [] tag[1] = "TagCompound" -> Some(10)
      [] tag[1] = "TagIntArray" -> Some(11)
      [] tag[1] = "TagLongArray" -> Some(12)
      [] OTHER -> None

(***************************************************************************)
(* The iteration order of a HashMap: some permutation of its entries,      *)
(* chosen by the hasher's random state.  The entries are put in the order  *)
(* of their keys and `seed` picks one of the permutations of that order.   *)
(***************************************************************************)

\* Lexicographic order on byte strings.
RECURSIVE key_less(_, _)
key_less(a, b) ==
    IF Len(a) = 0 THEN Len(b) > 0
    ELSE IF Len(b) = 0 THEN FALSE
    ELSE IF a[1] # b[1] THEN a[1] < b[1]
    ELSE key_less(Tail(a), Tail(b))

RECURSIVE sorted_entries(_)
sorted_entries(map) ==
    IF map = {} THEN <<>>
    ELSE LET first == CHOOSE e \in map : \A f \in map : f = e \/ key_less(e[1], f[1])
         IN <<first>> \o sorted_entries(map \ {first})

remove_at(s, i) == SubSeq(s, 1, i - 1) \o SubSeq(s, i + 1, Len(s))

RECURSIVE permute(_, _)
permute(s, seed) ==
    IF Len(s) = 0 THEN <<>>
    ELSE LET i == (seed % Len(s)) + 1
         IN <<s[i]>> \o permute(remove_at(s, i), seed \div Len(s))

\* `for tag in tag_value` over a HashMap
iter(map, seed) == permute(sorted_entries(map), seed)

(***************************************************************************)
(* The encoder (write.rs).  Every function returns Ok(bytes) or Err(msg).  *)
(***************************************************************************)

write_tag_byte(input) ==
    IF input[1] = "TagByte" THEN Ok(be_bytes(input[2], 1))
    ELSE Err("Tag is not of type TagByte")

write_tag_short(input) ==
    IF input[1] = "TagShort" THEN Ok(be_bytes(input[2], 2))
    ELSE Err("Tag is not of type TagShort")

write_tag_int(input) ==
    IF input[1] = "TagInt" THEN Ok(be_bytes(input[2], 4))
    ELSE Err("Tag is not of type TagInt")

write_tag_long(input) ==
    IF input[1] = "TagLong" THEN Ok(be_bytes64(input[2]))
    ELSE Err("Tag is not of type TagLong")

write_tag_float(input) ==
    IF input[1] = "TagFloat" THEN Ok(be_bytes(input[2], 4))
    ELSE Err("Tag is not of type TagFloat")

write_tag_double(input) ==
    IF input[1] = "TagDouble" THEN Ok(be_bytes64(input[2]))
    ELSE Err("Tag is not of type TagDouble")

\* the concatenation of the w-byte encodings of the elements of s
RECURSIVE write_each(_, _)
write_each(s, w) ==
    IF Len(s) = 0 THEN <<>>
    ELSE (IF w = 8 THEN be_bytes64(s[1]) ELSE be_bytes(s[1], w)) \o write_each(Tail(s), w)

write_tag_byte_array(input) ==
    IF input[1] = "TagByteArray"
    THEN Ok(be_bytes(Len(input[2]), 4) \o write_each(input[2], 1))
    ELSE Err("Tag is not of type TagByteArray")

write_tag_string(input) ==
    IF input[1] = "TagString"
    THEN Ok(be_bytes(as_u16(Len(input[2])), 2) \o input[2])
    ELSE Err("Tag is not of type TagString")

write_tag_int_array(input) ==
    IF input[1] = "TagIntArray"
    THEN Ok(be_bytes(Len(input[2]), 4) \o write_each(input[2], 4))
    ELSE Err("Tag is not of type TagIntArray")

write_tag_long_array(input) ==
    IF input[1] = "TagLongArray"
    THEN Ok(be_bytes(Len(input[2]), 4) \o write_each(input[2], 8))
    ELSE Err("Tag is not of type TagLongArray")

RECURSIVE write_tag(_, _, _, _, _)
RECURSIVE write_entries(_, _, _)
RECURSIVE write_elements(_, _, _)

\* write_entries with the slip of going on to the next entry when one fails
write_entries_skip(entries, output, seed) ==
    IF Len(entries) = 0 THEN Ok(output)
    ELSE LET result == write_tag(entries[1][2], TRUE, TRUE, Some(entries[1][1]), seed)
         IN IF result.ok
            THEN write_entries(Tail(entries), output \o result.val, seed)
            ELSE write_entries(Tail(entries), output, seed)

\* write_tag_compound, the loop `for tag in tag_value` over the entries in
\* iteration order, appending to output; the first Err is returned.
write_entries(entries, output, seed) ==
    IF Len(entries) = 0 THEN Ok(output)
    ELSE LET result == write_tag(entries[1][2], TRUE, TRUE, Some(entries[1][1]), seed)
         IN IF result.ok
            THEN write_entries(Tail(entries), output \o result.val, seed)
            ELSE Err(result.msg)

write_tag_compound(input, seed) ==
    IF input[1] = "TagCompound"
    THEN LET body == write_entries(iter(input[2], seed), <<>>, seed)
         IN IF body.ok THEN Ok(Append(body.val, 0)) ELSE body
    ELSE Err("Tag is not of type TagCompound")

\* write_tag_list, the loop `for tag in tag_value`
write_elements(elems, output, seed) ==
    IF Len(elems) = 0 THEN Ok(output)
    ELSE LET result == write_tag(elems[1], FALSE, FALSE, None, seed)
         IN IF result.ok
            THEN write_elements(Tail(elems), output \o result.val, seed)
            ELSE Err(result.msg)

\* The `if let` block returns only on its error paths: after the element loop
\* control leaves the block and reaches the function's last expression.
write_tag_list(input, seed) ==
    LET last == Err("Tag is not of type TagList")
    IN IF input[1] = "TagList"
       THEN IF Len(input[2]) <= 0
            THEN Err("Size of TagList is required to be bigger than 0")
            ELSE IF ~get_tag_id(input[2][1]).some
            THEN Err("Tag id not recognized")
            ELSE LET body == write_elements(input[2],
                                 <<get_tag_id(input[2][1]).val>> \o be_bytes(Len(input[2]), 4),
                                 seed)
                 IN IF body.ok THEN last ELSE body
       ELSE last

write_tag(input, write_id, write_name, name, seed) ==
    LET id_part == IF write_id /\ get_tag_id(input).some
                   THEN <<get_tag_id(input).val>> ELSE <<>>
        name_part == IF write_name /\ name.some
                     THEN (IF Len(name.val) = 0
                           THEN be_bytes(0, 2)
                           ELSE be_bytes(as_u16(Len(name.val)), 2)) \o name.val
                     ELSE <<>>
        tag_result ==
            CASE input[1] = "TagByte" -> write_tag_byte(input)
              [] input[1] = "TagShort" -> write_tag_short(input)
              [] input[1] = "TagInt" -> write_tag_int(input)
              [] input[1] = "TagLong" -> write_tag_long(input)
              [] input[1] = "TagFloat" -> write_tag_float(input)
              [] input[1] = "TagDouble" -> write_tag_double(input)
              [] input[1] = "TagByteArray" -> write_tag_byte_array(input)
              [] input[1] = "TagString" -> write_tag_string(input)
              [] input[1] = "TagList" -> write_tag_list(input, seed)
              [] input[1] = "TagCompound" -> write_tag_compound(input, seed)
              [] input[1] = "TagIntArray" -> write_tag_int_array(input)
              [] input[1] = "TagLongArray" -> write_tag_long_array(input)
              [] OTHER -> Err("Tag type not matched")
    IN IF tag_result.ok
       THEN Ok(id_part \o name_part \o tag_result.val)
       ELSE tag_result

\* file.rs NBTFile::as_bytes
as_bytes(file, seed) == write_tag(file.root, TRUE, TRUE, Some(file.root_name), seed)

(***************************************************************************)
(* The decoder (read.rs), on nom 4 with &[u8] input: a parser that needs   *)
(* more bytes than the slice holds returns Err(Incomplete).                *)
(***************************************************************************)

\* take!(n)
take(input, n) ==
    IF Len(input) < n THEN Fail("Incomplete", {})
    ELSE Done(SubSeq(input, n + 1, Len(input)), SubSeq(input, 1, n), {})

\* the bytes r that take! returned, read as a number
signed(r) == IF r.kind = "Ok" THEN Done(r.rest, be_signed(r.val), r.log) ELSE r
signed64(r) == IF r.kind = "Ok" THEN Done(r.rest, be_signed64(r.val), r.log) ELSE r
unsigned16(r) == IF r.kind = "Ok" THEN Done(r.rest, be_unsigned16(r.val), r.log) ELSE r

\* be_i8, i16!(Big), i32!(Big): a signed integer of w bytes
be_int(input, w) == signed(take(input, w))

\* i64!(Big), f64!(Big)
be_i64(input) == signed64(take(input, 8))

\* u16!(Big)
be_u16(input) == unsigned16(take(input, 2))

\* tag!([0x00])
tag_end(input) ==
    IF Len(input) < 1 THEN Fail("Incomplete", {})
    ELSE IF input[1] = 0 THEN Done(Tail(input), <<0>>, {})
    ELSE Fail("Error", {})

\* str::from_utf8(..).is_ok(): well-formed UTF-8 (no overlong forms, no
\* surrogates, nothing above U+10FFFF)
cont(b) == b >= 128 /\ b <= 191
RECURSIVE from_utf8_ok(_)
from_utf8_ok(b) ==
    IF Len(b) = 0 THEN TRUE
    ELSE IF b[1] <= 127 THEN from_utf8_ok(Tail(b))
    ELSE IF b[1] >= 194 /\ b[1] <= 223
    THEN Len(b) >= 2 /\ cont(b[2]) /\ from_utf8_ok(SubSeq(b, 3, Len(b)))
    ELSE IF b[1] >= 224 /\ b[1] <= 239
    THEN /\ Len(b) >= 3
         /\ cont(b[2]) /\ cont(b[3])
         /\ (b[1] = 224 => b[2] >= 160)
         /\ (b[1] = 237 => b[2] <= 159)
         /\ from_utf8_ok(SubSeq(b, 4, Len(b)))
    ELSE IF b[1] >= 240 /\ b[1] <= 244
    THEN /\ Len(b) >= 4
         /\ cont(b[2]) /\ cont(b[3]) /\ cont(b[4])
         /\ (b[1] = 240 => b[2] >= 144)
         /\ (b[1] = 244 => b[2] <= 143)
         /\ from_utf8_ok(SubSeq(b, 5, Len(b)))
    ELSE FALSE

\* take!(len), after the parser of the length returned len
take_len(len) == IF len.kind = "Ok" THEN take(len.rest, len.val) ELSE len

\* str::from_utf8(name).unwrap() on the bytes that take! returned
from_utf8_unwrap(name) ==
    IF name.kind = "Ok" /\ ~from_utf8_ok(name.val)
    THEN Fail("Panic", {<<"bad_utf8", 0, 0>>})
    ELSE name

\* u16 length, take!(len), then str::from_utf8(..).unwrap()
read_text(input) == from_utf8_unwrap(take_len(be_u16(input)))

read_tag_name(input) == read_text(input)

\* the last line of do_parse!: NBTTag::variant(val) of the parsed val
tagged(variant, val) ==
    IF val.kind = "Ok" THEN Done(val.rest, Tag(variant, val.val), val.log) ELSE val

read_tag_byte(input) == tagged("TagByte", be_int(input, 1))

read_tag_short(input) == tagged("TagShort", be_int(input, 2))

read_tag_int(input) == tagged("TagInt", be_int(input, 4))

read_tag_long(input) == tagged("TagLong", be_i64(input))

read_tag_float(input) == tagged("TagFloat", be_int(input, 4))

read_tag_double(input) == tagged("TagDouble", be_i64(input))

read_tag_string(input) == tagged("TagString", read_text(input))

RECURSIVE read_tag_known(_, _)
RECURSIVE read_tag(_)
RECURSIVE many_m_n_loop(_, _, _, _, _, _, _)
RECURSIVE many_till_loop(_, _, _)

\* the parser handed to many_m_n!: be_i8, i32!, i64!, or
\* apply!(read_tag_known, tag_type)
element(elem, input) ==
    CASE elem.p = "be_i8" -> be_int(input, 1)
      [] elem.p = "i32" -> be_int(input, 4)
      [] elem.p = "i64" -> be_i64(input)
      [] elem.p = "read_tag_known" -> read_tag_known(input, elem.tag_type)

\* many_m_n!(m, n, elem), what follows its loop: fewer than m elements are an
\* Error after an Error and Incomplete otherwise; with m or more elements an
\* Error of the element parser ends the repetition with the elements so far.
many_m_n_end(m, input, count, res, err, incomplete, log) ==
    IF count < m
    THEN IF err THEN Fail("Error", log) ELSE Fail("Incomplete", log)
    ELSE IF incomplete THEN Fail("Incomplete", log)
    ELSE Done(input, res, log)

\* many_m_n!(m, n, elem), the match on the result r of the element parser
many_m_n_match(m, n, elem, input, count, res, log, r) ==
    CASE r.kind = "Ok" ->
           IF Len(r.rest) = Len(input)
           THEN many_m_n_end(m, input, count, res, FALSE, FALSE, log \cup r.log)
           ELSE many_m_n_loop(m, n, elem, r.rest, count + 1,
                              Append(res, r.val), log \cup r.log)
      [] r.kind = "Error" ->
           many_m_n_end(m, input, count, res, TRUE, FALSE, log \cup r.log)
      [] r.kind = "Incomplete" ->
           many_m_n_end(m, input, count, res, FALSE, TRUE, log \cup r.log)
      [] OTHER -> after(log, r)

\* many_m_n!(m, n, elem), one turn of its loop
many_m_n_loop(m, n, elem, input, count, res, log) ==
    IF usize_of(count) = n
    THEN many_m_n_end(m, input, count, res, FALSE, FALSE, log)
    ELSE many_m_n_match(m, n, elem, input, count, res, log, element(elem, input))

many_m_n(m, n, elem, input) == many_m_n_loop(m, n, elem, input, 0, <<>>, {})

\* the last line of do_parse! of an array or List parser: NBTTag::variant(val)
\* of the elements val that many_m_n! returned for the count field len
counted(variant, what, len, val) ==
    IF val.kind = "Ok"
    THEN Done(val.rest, Tag(variant, val.val),
              val.log \cup {<<what, len, Len(val.val)>>})
    ELSE val

\* many_m_n!(m, len as usize, elem) of an array parser, after i32!(Big)
\* returned len
read_array_elems(m, variant, p, len) ==
    IF len.kind # "Ok" THEN len
    ELSE counted(variant, "array", len.val,
                 after({<<"array_len", len.val, 0>>},
                       many_m_n(m, as_usize(len.val), [p |-> p], len.rest)))

\* read_array with the slip of a minimum of 0 elements: many_m_n!(0, ..)
read_array_min0(input, variant, p) ==
    read_array_elems(0, variant, p, be_int(input, 4))

\* i32 len, then many_m_n!(1, len as usize, elem): the three array parsers
read_array(input, variant, p) ==
    read_array_elems(1, variant, p, be_int(input, 4))

read_tag_byte_array(input) == read_array(input, "TagByteArray", "be_i8")

\* read_tag_int_array with the slip of building the variant of id 12
read_tag_int_array_as_long(input) == read_array(input, "TagLongArray", "i32")

read_tag_int_array(input) == read_array(input, "TagIntArray", "i32")

read_tag_long_array(input) == read_array(input, "TagLongArray", "i64")

\* read_tag_list, many_m_n!(1, len as usize, apply!(read_tag_known,
\* elems_type)) after i32!(Big) returned len
read_tag_list_elems(elems_type, len) ==
    IF len.kind # "Ok" THEN len
    ELSE counted("TagList", "list", len.val,
                 after({<<"list_len", len.val, 0>>},
                       many_m_n(1, as_usize(len.val),
                                [p |-> "read_tag_known", tag_type |-> elems_type],
                                len.rest)))

\* read_tag_list, i32!(Big) after take!(1) returned elems_type
read_tag_list_len(elems_type) ==
    IF elems_type.kind # "Ok" THEN elems_type
    ELSE read_tag_list_elems(elems_type.val[1], be_int(elems_type.rest, 4))

read_tag_list(input) == read_tag_list_len(take(input, 1))

RECURSIVE tuple_vector_to_hash_map_from(_, _)
tuple_vector_to_hash_map_from(input, map) ==
    IF Len(input) = 0 THEN map
    ELSE tuple_vector_to_hash_map_from(Tail(input), insert(map, input[1][1], input[1][2]))

tuple_vector_to_hash_map(input) == tuple_vector_to_hash_map_from(input, {})

\* many_till!, the match on the result r of read_tag
many_till_match(input, res, log, r) ==
    IF r.kind # "Ok" THEN after(log, r)
    ELSE IF r.rest = input THEN Fail("Error", log \cup r.log)
    ELSE many_till_loop(r.rest, Append(res, r.val), log \cup r.log)

\* many_till!, the match on the result end of the terminator tag!([0x00])
many_till_end(input, res, log, end) ==
    IF end.kind = "Ok" THEN Done(end.rest, res, log)
    ELSE many_till_match(input, res, log, read_tag(input))

\* many_till_loop with the slip of taking the end of the input for the
\* terminator
many_till_loop_eof(input, res, log) ==
    IF Len(input) = 0 THEN Done(input, res, log)
    ELSE many_till_end(input, res, log, tag_end(input))

\* many_till!(read_tag, tag!([0x00])), one turn of its loop: the terminator is
\* tried first, and read_tag only when it does not match
many_till_loop(input, res, log) == many_till_end(input, res, log, tag_end(input))

many_till(input) == many_till_loop(input, <<>>, {})

\* the last line of do_parse! of read_tag_compound
compound_of(elems) ==
    IF elems.kind = "Ok"
    THEN Done(elems.rest, Tag("TagCompound", tuple_vector_to_hash_map(elems.val)),
              elems.log)
    ELSE elems

read_tag_compound(input) == compound_of(many_till(input))

\* read_tag, its last line (name, output) after read_tag_known returned output
read_tag_output(name, output) ==
    IF output.kind = "Ok"
    THEN Done(output.rest, <<name, output.val>>, output.log)
    ELSE output

\* read_tag, apply!(read_tag_known, tag_type) after read_tag_name returned name
read_tag_value(tag_type, name) ==
    IF name.kind # "Ok" THEN name
    ELSE read_tag_output(name.val, read_tag_known(name.rest, tag_type))

\* read_tag, read_tag_name after take!(1) returned tag_type
read_tag_named(tag_type) ==
    IF tag_type.kind # "Ok" THEN tag_type
    ELSE read_tag_value(tag_type.val[1], read_tag_name(tag_type.rest))

read_tag(input) == read_tag_named(take(input, 1))

\* Reads tag of which the type is already known
read_tag_known(input, tag_type) ==
    CASE tag_type = 1 -> read_tag_byte(input)
      [] tag_type = 2 -> read_tag_short(input)
      [] tag_type = 3 -> read_tag_int(input)
      [] tag_type = 4 -> read_tag_long(input)
      [] tag_type = 5 -> read_tag_float(input)
      [] tag_type = 6 -> read_tag_double(input)
      [] tag_type = 7 -> read_tag_byte_array(input)
      [] tag_type = 8 -> read_tag_string(input)
      [] tag_type = 9 -> read_tag_list(input)
      [] tag_type = 10 -> read_tag_compound(input)
      [] tag_type = 11 -> read_tag_int_array(input)
      [] tag_type = 12 -> read_tag_long_array(input)
      [] OTHER -> Fail("Error", {<<"unknown_id", tag_type, 0>>})

\* an NBTFile
NBTFile(root_name, root) == [root_name |-> root_name, root |-> root]

\* file_from_tuple with the slip of accepting every variant as the root
file_from_tuple_any(tuple) == Some(NBTFile(tuple[1], tuple[2]))

file_from_tuple(tuple) ==
    IF tuple[2][1] = "TagCompound" THEN Some(NBTFile(tuple[1], tuple[2])) ELSE None

\* read_nbt_file, its last line (file_from_tuple(root)) after read_tag
\* returned root
file_of(root) ==
    IF root.kind = "Ok" THEN Done(root.rest, file_from_tuple(root.val), root.log)
    ELSE root

read_nbt_file(input) == file_of(read_tag(input))

\* file.rs NBTFile::from_bytes; a panic of the parser is no return at all
Unwind == [ok |-> FALSE, panicked |-> TRUE]

\* NBTFile::from_bytes, the match on what read_nbt_file returned
match_file_raw(file_raw) ==
    IF file_raw.kind = "Ok"
    THEN IF file_raw.val.some
         THEN Ok(file_raw.val.val)
         ELSE Err("File could not be read")
    ELSE IF file_raw.kind = "Panic" THEN Unwind
    ELSE Err("File could not be read")

from_bytes(b) == match_file_raw(read_nbt_file(b))

(***************************************************************************)
(* Bounds and the values the model draws from.                             *)
(***************************************************************************)

\* the largest number of entries put into a root Compound
MaxEntries == 2

\* the largest number of bytes of a buffer damaged before it is decoded
MaxEdits == 1

RECURSIVE factorial(_)
factorial(n) == IF n <= 1 THEN 1 ELSE n * factorial(n - 1)

\* the iteration orders of a HashMap of at most MaxEntries entries
Seeds == 0 .. (factorial(MaxEntries) - 1)

\* "" and "e"
RootNames == {<<>>, <<101>>}

\* "", "a" and "é"
Keys == {<<>>, <<97>>, <<195, 169>>}

Byte7 == Tag("TagByte", 7)
EmptyList == Tag("TagList", <<>>)
Ints123 == Tag("TagList", <<Tag("TagInt", 1), Tag("TagInt", 2), Tag("TagInt", 3)>>)

\* one or more values of every variant; Float and Double hold 1.0
Scalars ==
    { Tag("TagByte", -1), Tag("TagShort", 258), Tag("TagInt", -2),
      Tag("TagLong", <<-1, -2>>), Tag("TagFloat", 1065353216),
      Tag("TagDouble", <<1072693248, 0>>),
      Tag("TagString", <<>>), Tag("TagString", <<104, 105>>) }

Arrays ==
    { Tag("TagByteArray", <<1, -1>>), Tag("TagByteArray", <<>>),
      Tag("TagIntArray", <<65536>>), Tag("TagLongArray", <<<<0, 1>>, <<-1, -1>>>>) }

Lists ==
    { Ints123, EmptyList,
      Tag("TagList", <<Tag("TagList", <<Byte7>>)>>),
      Tag("TagList", <<Byte7, EmptyList>>),
      Tag("TagList", <<Tag("TagCompound", {<<<<97>>, EmptyList>>})>>),
      Tag("TagList", <<TagEnd>>) }

Compounds ==
    { Tag("TagCompound", {}),
      Tag("TagCompound", {<<<<97>>, Byte7>>, <<<<>>, Tag("TagString", <<195, 169>>)>>}),
      Tag("TagCompound", {<<<<97>>, Ints123>>}),
      Tag("TagCompound", {<<<<97>>, Tag("TagCompound", {<<<<>>, EmptyList>>})>>}) }

Values == Scalars \cup Arrays \cup Lists \cup Compounds \cup {TagEnd}

NotDone == [done |-> FALSE]

(***************************************************************************)
(* Spec: a Document is built in memory, encoded with as_bytes, and the     *)
(* bytes are decoded with from_bytes.                                      *)
(***************************************************************************)

Init ==
    /\ doc \in {NBTFile(n, Tag("TagCompound", {})) : n \in RootNames}
    /\ orig = <<>>
    /\ bytes = <<>>
    /\ enc = NotDone
    /\ dec = NotDone

\* the caller inserts an entry into the root's HashMap; a tree is not
\* changed once it has been handed to the codec
Insert(k, v) ==
    /\ ~enc.done /\ ~dec.done
    /\ doc.root[1] = "TagCompound"
    /\ Cardinality(insert(doc.root[2], k, v)) <= MaxEntries
    /\ doc' = [doc EXCEPT !.root[2] = insert(@, k, v)]
    /\ UNCHANGED <<orig, bytes, enc, dec>>

\* the caller builds an NBTFile whose root is not a Compound (the fields of
\* NBTFile are public)
SetRoot(v) ==
    /\ ~enc.done /\ ~dec.done
    /\ doc.root = Tag("TagCompound", {})
    /\ v[1] # "TagCompound"
    /\ doc' = [doc EXCEPT !.root = v]
    /\ UNCHANGED <<orig, bytes, enc, dec>>

\* NBTFile::as_bytes; the bytes returned are kept for decoding
AsBytes(seed) ==
    /\ ~enc.done
    /\ enc' = [done |-> TRUE, of |-> doc, seed |-> seed, res |-> as_bytes(doc, seed)]
    /\ orig' = IF enc'.res.ok THEN enc'.res.val ELSE orig
    /\ bytes' = orig'
    /\ UNCHANGED <<doc, dec>>

\* NBTFile::from_bytes(&bytes); `parse` is what read_nbt_file returned
FromBytes ==
    /\ ~dec.done
    /\ dec' = [done |-> TRUE, of |-> bytes, res |-> from_bytes(bytes),
               parse |-> read_nbt_file(bytes)]
    /\ UNCHANGED <<doc, orig, bytes, enc>>

Next ==
    \/ \E k \in Keys, v \in Values : Insert(k, v)
    \/ \E v \in Values : SetRoot(v)
    \/ \E seed \in Seeds : AsBytes(seed)
    \/ FromBytes

Spec == Init /\ [][Next]_vars

(***************************************************************************)
(* SpecWire: a byte buffer read from a file, possibly cut short or with    *)
(* damaged bytes, is decoded with from_bytes.                              *)
(***************************************************************************)

\* tests.rs check_nbt_file: the Document "e" { "Hello": String("Hello") }
HelloBytes ==
    <<10, 0, 1, 101, 8, 0, 5, 72, 101, 108, 108, 111,
      0, 5, 72, 101, 108, 108, 111, 0>>

HelloFile ==
    NBTFile(<<101>>, Tag("TagCompound",
        {<<<<72, 101, 108, 108, 111>>, Tag("TagString", <<72, 101, 108, 108, 111>>)>>}))

\* "" { "l": List[Int 1, Int 2, Int 3] }
Ints123Bytes ==
    <<10, 0, 0, 9, 0, 1, 108, 3, 0, 0, 0, 3,
      0, 0, 0, 1, 0, 0, 0, 2, 0, 0, 0, 3, 0>>

\* "" { "": List[List[Byte 7], List[Byte 8]] }
ListOfListsBytes ==
    <<10, 0, 0, 9, 0, 0, 9, 0, 0, 0, 2,
      1, 0, 0, 0, 1, 7, 1, 0, 0, 0, 1, 8, 0>>

\* "" { "": List[Compound {}, Compound { "": Byte 7 }] }
ListOfCompoundsBytes ==
    <<10, 0, 0, 9, 0, 0, 10, 0, 0, 0, 2, 0, 1, 0, 0, 7, 0, 0>>

\* "e" { "a": Compound { "b": Byte 7 } }
NestedBytes ==
    <<10, 0, 1, 101, 10, 0, 1, 97, 1, 0, 1, 98, 7, 0, 0>>

\* "" { "a": ByteArray[1, -1] }, "" { "a": IntArray[5] }, "" { "a": LongArray[5] }
ByteArrayBytes == <<10, 0, 0, 7, 0, 1, 97, 0, 0, 0, 2, 1, 255, 0>>
IntArrayBytes == <<10, 0, 0, 11, 0, 1, 97, 0, 0, 0, 1, 0, 0, 0, 5, 0>>
LongArrayBytes == <<10, 0, 0, 12, 0, 1, 97, 0, 0, 0, 1, 0, 0, 0, 0, 0, 0, 0, 5, 0>>

\* a top-level Int named "" and a top-level List[Byte 7] named "e"
IntRootBytes == <<3, 0, 0, 0, 0, 0, 7>>
ListRootBytes == <<9, 0, 1, 101, 1, 0, 0, 0, 1, 7>>

\* "" { "": a List of Lists with count field -1, holding List[Byte 7] and
\* then a List whose element type id is 0 }
NegativeCountBytes ==
    <<10, 0, 0, 9, 0, 0, 9, 255, 255, 255, 255,
      1, 0, 0, 0, 1, 7, 0, 0, 0, 0, 1>>

\* "" { "": a List of two Lists: List[Byte 7], then a List of Lists with
\* count field 0x980 whose first element has the element type id 0x0D }
UnknownIdBytes ==
    <<10, 0, 0, 9, 0, 0, 9, 0, 0, 0, 2,
      1, 0, 0, 0, 1, 7,
      9, 0, 0, 9, 128, 13, 0, 0, 1, 0, 0, 0, 1, 7,
      0, 0, 0, 0, 1>>

\* "" { "": a List of two Lists: List[Byte 7], then a List whose element type
\* id is 0, with count field 1 and the payload byte 8 }
EndIdBytes ==
    <<10, 0, 0, 9, 0, 0, 9, 0, 0, 0, 2,
      1, 0, 0, 0, 1, 7,
      0, 0, 0, 0, 1, 8, 0>>

\* "" { "a": Byte 1, "b": Byte 2, "a": Int 3 }: the name "a" twice
DuplicateKeysBytes ==
    <<10, 0, 0, 1, 0, 1, 97, 1, 1, 0, 1, 98, 2,
      3, 0, 1, 97, 0, 0, 0, 3, 0>>

\* what as_bytes returns for the one-entry Documents over Scalars and Arrays
EncodedInputs ==
    LET out(v) == as_bytes(NBTFile(<<>>, Tag("TagCompound", {<<<<97>>, v>>})), 0)
    IN {out(v).val : v \in {w \in Scalars \cup Arrays : out(w).ok}}

Inputs ==
    { HelloBytes, Ints123Bytes, ListOfListsBytes, ListOfCompoundsBytes, NestedBytes,
      ByteArrayBytes, IntArrayBytes, LongArrayBytes, IntRootBytes, ListRootBytes,
      NegativeCountBytes, UnknownIdBytes, EndIdBytes, DuplicateKeysBytes } \cup EncodedInputs

\* End's id, the id 0x0D, and 0xFF (in no UTF-8 text, and the sign of a count)
DamagedBytes == {0, 13, 255}

\* how many edits turned orig into bytes
edits ==
    (IF Len(bytes) < Len(orig) THEN 1 ELSE 0)
    + Cardinality({i \in 1 .. Len(bytes) : bytes[i] # orig[i]})

InitWire ==
    /\ doc = NBTFile(<<>>, Tag("TagCompound", {}))
    /\ orig \in Inputs
    /\ bytes = orig
    /\ enc = NotDone
    /\ dec = NotDone

\* the buffer is cut short to its first n bytes, before it is decoded
Truncate(n) ==
    /\ ~dec.done
    /\ Len(bytes) = Len(orig)
    /\ edits < MaxEdits
    /\ n < Len(bytes)
    /\ bytes' = SubSeq(bytes, 1, n)
    /\ UNCHANGED <<doc, orig, enc, dec>>

\* byte i of the buffer is replaced by v, before it is decoded
Corrupt(i, v) ==
    /\ ~dec.done
    /\ edits < MaxEdits
    /\ i <= Len(bytes)
    /\ bytes[i] = orig[i]
    /\ bytes[i] # v
    /\ bytes' = [bytes EXCEPT ![i] = v]
    /\ UNCHANGED <<doc, orig, enc, dec>>

NextWire ==
    \/ \E n \in 0 .. Len(orig) : Truncate(n)
    \/ \E i \in 1 .. Len(orig), v \in DamagedBytes : Corrupt(i, v)
    \/ FromBytes

SpecWire == InitWire /\ [][NextWire]_vars

(***************************************************************************)
(* SpecText: write_tag is called on a tag with a name, and read_tag_name    *)
(* reads the name back from the bytes that follow the id.                  *)
(***************************************************************************)

\* the bytes of b from offset k on
Suffix(b, k) == SubSeq(b, k + 1, Len(b))

\* the text of n bytes "aaa..."
text_of_len(n) == [i \in 1 .. n |-> 97]

\* "", "a", "é" and "hi"
ShortTexts == {<<>>, <<97>>, <<195, 169>>, <<104, 105>>}

\* texts of 2^16 and 2^16 + 1 bytes
LongTexts == {text_of_len(65536), text_of_len(65537)}

\* a name and a value, at most one of them a long text
TextDocs ==
    {NBTFile(s, v) : s \in ShortTexts \cup LongTexts,
                     v \in {Byte7} \cup {Tag("TagString", t) : t \in ShortTexts}}
    \cup {NBTFile(s, Tag("TagString", t)) : s \in ShortTexts, t \in LongTexts}

InitText ==
    /\ doc \in TextDocs
    /\ orig = <<>>
    /\ bytes = <<>>
    /\ enc = NotDone
    /\ dec = NotDone

\* write_tag(&doc.root, write_id, write_name, Some(&doc.root_name)); the
\* bytes returned are kept in `bytes`
WriteTag(write_id, write_name) ==
    /\ ~enc.done
    /\ enc' = [done |-> TRUE, write_id |-> write_id, write_name |-> write_name,
               ok |-> write_tag(doc.root, write_id, write_name, Some(doc.root_name), 0).ok]
    /\ bytes' = IF enc'.ok
                THEN write_tag(doc.root, write_id, write_name, Some(doc.root_name), 0).val
                ELSE bytes
    /\ UNCHANGED <<doc, orig, dec>>

\* read_tag_name on the bytes that write_tag returned, from behind the id;
\* `bytes` becomes the input that the parser left
ReadTagName ==
    /\ enc.done /\ enc.ok /\ enc.write_name
    /\ ~dec.done
    /\ LET name == read_tag_name(Suffix(bytes, IF enc.write_id THEN 1 ELSE 0))
       IN IF name.kind = "Ok"
          THEN /\ dec' = [done |-> TRUE, kind |-> "Ok", val |-> name.val]
               /\ bytes' = name.rest
          ELSE /\ dec' = [done |-> TRUE, kind |-> name.kind]
               /\ bytes' = bytes
    /\ UNCHANGED <<doc, orig, enc>>

NextText ==
    \/ \E write_id, write_name \in BOOLEAN : WriteTag(write_id, write_name)
    \/ ReadTagName

SpecText == InitText /\ [][NextText]_vars

(***************************************************************************)
(* Properties of the encoder, checked under Spec.                          *)
(***************************************************************************)

\* every tag of the tree below tag, tag included
RECURSIVE Subtags(_)
Subtags(tag) ==
    {tag} \cup
    (CASE tag[1] = "TagList" -> UNION {Subtags(tag[2][i]) : i \in 1 .. Len(tag[2])}
       [] tag[1] = "TagCompound" -> UNION {Subtags(e[2]) : e \in tag[2]}
       [] OTHER -> {})

\* the invariants of the data model: the root is a Compound, keys are unique,
\* every List is non-empty and homogeneous, End is no value
Valid(file) ==
    /\ file.root[1] = "TagCompound"
    /\ \A tag \in Subtags(file.root) :
          /\ tag[1] # "TagEnd"
          /\ tag[1] = "TagList" =>
                /\ Len(tag[2]) >= 1
                /\ \A i \in 1 .. Len(tag[2]) : tag[2][i][1] = tag[2][1][1]
          /\ tag[1] = "TagCompound" =>
                \A e, f \in tag[2] : e[1] = f[1] => e = f

\* sub occurs in b as a run of consecutive bytes
Contains(b, sub) ==
    \E i \in 0 .. (Len(b) - Len(sub)) : SubSeq(b, i + 1, i + Len(sub)) = sub

\* the values of a List of Ints
RECURSIVE IntsOf(_)
IntsOf(elems) == IF Len(elems) = 0 THEN <<>> ELSE <<elems[1][2]>> \o IntsOf(Tail(elems))

\* the wire format of a Compound entry k -> List of Ints: id 9, the name,
\* element id 3, the count, the Ints
IntListEntry(k, list) ==
    <<9>> \o be_bytes(Len(k), 2) \o k \o <<3>> \o be_bytes(Len(list[2]), 4)
         \o write_each(IntsOf(list[2]), 4)

IsIntList(tag) ==
    /\ tag[1] = "TagList"
    /\ Len(tag[2]) >= 1
    /\ \A i \in 1 .. Len(tag[2]) : tag[2][i][1] = "TagInt"

\* C1: for every Document that satisfies the data-model invariants, as_bytes
\* succeeds, and from_bytes of the bytes returns an equal Document.
C1_RoundTrip ==
    /\ enc.done /\ Valid(enc.of) => enc.res.ok
    /\ (enc.done /\ dec.done /\ Valid(enc.of) /\ enc.res.ok /\ dec.of = enc.res.val)
         => (dec.res.ok /\ dec.res.val = enc.of)

\* C2: on a tree with no End value and no List with zero elements the
\* encoder returns Ok.
C2_EncoderFailsOnlyOnInvalid ==
    (enc.done /\ \A tag \in Subtags(enc.of.root) : tag # TagEnd /\ tag # EmptyList)
        => enc.res.ok

\* C3: a Compound entry holding a non-empty List of Ints is encoded as id 9,
\* the name, element id 3, the count as a big-endian i32 and the payloads of
\* the elements, and these bytes decode to the same entry.
C3_ListLayout ==
    (enc.done /\ Valid(enc.of)) =>
        \A e \in enc.of.root[2] :
            IsIntList(e[2]) =>
                /\ enc.res.ok
                /\ Contains(enc.res.val, IntListEntry(e[1], e[2]))
                /\ read_tag(IntListEntry(e[1], e[2])).kind = "Ok"
                /\ read_tag(IntListEntry(e[1], e[2])).val = e

\* C4: encoding a Document one of whose Lists, at any depth, has zero
\* elements returns Err and no bytes.
C4_EmptyListFails ==
    (enc.done /\ EmptyList \in Subtags(enc.of.root))
        => (~enc.res.ok /\ DOMAIN enc.res = {"ok", "msg"})

\* an empty List below a Compound entry of the root or as a List element was
\* handed to as_bytes, which failed
C4_Witness ==
    /\ enc.done
    /\ enc.of.root[1] = "TagCompound"
    /\ \E e \in enc.of.root[2] : e[2] # EmptyList /\ EmptyList \in Subtags(e[2])
    /\ ~enc.res.ok

(***************************************************************************)
(* Properties of the decoder, checked under SpecWire.                      *)
(***************************************************************************)

\* read_nbt_file returned a Document and left no byte unconsumed
WholeOk(b) ==
    LET r == read_nbt_file(b)
    IN r.kind = "Ok" /\ r.val.some /\ r.rest = <<>>

\* C5: no Document is returned from a parse in which read_tag_list returned
\* a List for a count field that is 0 or negative.
C5_NoListFromBadCount ==
    (dec.done /\ dec.res.ok) =>
        \A ev \in dec.parse.log : ev[1] = "list" => ev[2] >= 1

\* C6: an array parser that read a count field of 0 or less makes the decode
\* fail, and an array that was decoded has as many elements as its count
\* field says, at least one.
C6_ArrayCount ==
    dec.done =>
        \A ev \in dec.parse.log :
            /\ (ev[1] = "array_len" /\ ev[2] < 1) => ~dec.res.ok
            /\ ev[1] = "array" => (ev[3] >= 1 /\ ev[3] = ev[2])

\* an array whose count field is 0 or negative was decoded, and the decode
\* failed
C6_Witness ==
    /\ dec.done
    /\ \E ev \in dec.parse.log : ev[1] = "array_len" /\ ev[2] < 1
    /\ ~dec.res.ok

\* C7: when the decoder has read a type id outside 1..12 where a value is
\* expected, the decode fails.
C7_UnknownIdFails ==
    (dec.done /\ \E ev \in dec.parse.log : ev[1] = "unknown_id") => ~dec.res.ok

\* C8: when a buffer decodes to a Document with no unconsumed bytes, the
\* decode of each of its proper prefixes fails.
C8_TruncationFails ==
    /\ (dec.done /\ Len(dec.of) < Len(orig) /\ dec.of = SubSeq(orig, 1, Len(dec.of))
            /\ WholeOk(orig))
          => ~dec.res.ok
    /\ (dec.done /\ dec.res.ok /\ dec.parse.rest = <<>>)
          => \A n \in 0 .. (Len(dec.of) - 1) : ~from_bytes(SubSeq(dec.of, 1, n)).ok

\* a proper prefix of a buffer that decodes to a Document with no unconsumed
\* bytes was decoded, and the decode failed
C8_Witness ==
    /\ dec.done
    /\ Len(dec.of) < Len(orig)
    /\ Len(dec.of) > 0
    /\ dec.of = SubSeq(orig, 1, Len(dec.of))
    /\ WholeOk(orig)
    /\ ~dec.res.ok

\* C9: when the bytes of a name or of a String are not valid UTF-8,
\* from_bytes returns Err to its caller.
C9_BadTextIsErr ==
    (dec.done /\ <<"bad_utf8", 0, 0>> \in dec.parse.log)
        => (~dec.res.ok /\ DOMAIN dec.res = {"ok", "msg"})

\* C10: from_bytes returns a Document exactly when the top-level tag parses
\* and is a Compound, the Document is that tag with its name, a top-level tag
\* of another variant gives None and Err, and the bytes of tests.rs give the
\* Document "e" { "Hello": String("Hello") } with nothing left over.
C10_RootConstraint ==
    dec.done =>
        LET root == read_tag(dec.of)
        IN /\ dec.res.ok <=> (root.kind = "Ok" /\ root.val[2][1] = "TagCompound")
           /\ dec.res.ok => dec.res.val = NBTFile(root.val[1], root.val[2])
           /\ (root.kind = "Ok" /\ root.val[2][1] # "TagCompound")
                => /\ dec.parse.kind = "Ok"
                   /\ ~dec.parse.val.some
                   /\ ~dec.res.ok
                   /\ DOMAIN dec.res = {"ok", "msg"}
           /\ dec.of = HelloBytes
                => /\ dec.parse.kind = "Ok"
                   /\ dec.parse.rest = <<>>
                   /\ dec.parse.val.some
                   /\ dec.parse.val.val = HelloFile
                   /\ dec.res.val = HelloFile

\* a well-formed top-level tag that is no Compound was decoded: no Document
C10_Witness ==
    /\ dec.done
    /\ read_tag(dec.of).kind = "Ok"
    /\ read_tag(dec.of).val[2][1] # "TagCompound"
    /\ ~dec.res.ok

(***************************************************************************)
(* Properties of the Compound parser, checked under SpecWire.              *)
(***************************************************************************)

\* map holds, for every name among entries, the value of the last entry of
\* that name, and nothing else
LastWriteWins(entries, map) ==
    LET names == {entries[i][1] : i \in 1 .. Len(entries)}
    IN /\ {e[1] : e \in map} = names
       /\ Cardinality(map) = Cardinality(names)
       /\ \A i \in 1 .. Len(entries) :
             (\A j \in (i + 1) .. Len(entries) : entries[j][1] # entries[i][1])
                => <<entries[i][1], entries[i][2]>> \in map
       /\ \A e \in map : e[2] # TagEnd

\* the payload of the top-level tag of b: what follows its id and its name
RootPayload(b) == Suffix(b, 3 + be_unsigned16(SubSeq(b, 2, 3)))

\* C11: wherever in the buffer the entries of a Compound parse up to the
\* terminator, read_tag_compound returns, with no error and with the same
\* bytes left, the mapping of every parsed name to the value of the last
\* entry of that name, End not among the values; and the root of a decoded
\* Document is that mapping of the entries of the top-level payload.
C11_LastWriteWins ==
    dec.done =>
        /\ \A k \in 0 .. Len(dec.of) :
               LET elems == many_till(Suffix(dec.of, k))
                   tag == read_tag_compound(Suffix(dec.of, k))
               IN elems.kind = "Ok" =>
                      /\ tag.kind = "Ok"
                      /\ tag.rest = elems.rest
                      /\ tag.val[1] = "TagCompound"
                      /\ LastWriteWins(elems.val, tag.val[2])
        /\ dec.res.ok =>
               /\ many_till(RootPayload(dec.of)).kind = "Ok"
               /\ LastWriteWins(many_till(RootPayload(dec.of)).val, dec.res.val.root[2])

\* a buffer whose top-level Compound has two entries of one name with
\* different values, and an entry of another name, was decoded to a Document
C11_Witness ==
    /\ dec.done
    /\ dec.res.ok
    /\ LET entries == many_till(RootPayload(dec.of)).val
       IN /\ \E i, j \in 1 .. Len(entries) :
                i < j /\ entries[i][1] = entries[j][1] /\ entries[i][2] # entries[j][2]
          /\ Cardinality(dec.res.val.root[2]) >= 2
          /\ Cardinality(dec.res.val.root[2]) < Len(entries)

(***************************************************************************)
(* SpecKnown: read_tag_known is called with a type id on the bytes of a    *)
(* payload, possibly with damaged bytes.                                   *)
(***************************************************************************)

\* the payloads that write_tag emits for the values it encodes
EncodedPayloads ==
    LET out(v) == write_tag(v, FALSE, FALSE, None, 0)
    IN {out(v).val : v \in {w \in Scalars \cup Arrays \cup Compounds : out(w).ok}}

\* the payloads of a List of Bytes, a List of Compounds, a Compound with a
\* name twice, and an Int
KnownInputs ==
    EncodedPayloads
    \cup {RootPayload(b) : b \in {ListRootBytes, ListOfCompoundsBytes,
                                  DuplicateKeysBytes, IntRootBytes}}

\* the ids of the arms of read_tag_known, End's id, 0x0D and 0xFF
TagTypes == (1 .. 12) \cup DamagedBytes

InitKnown ==
    /\ doc = NBTFile(<<>>, Tag("TagCompound", {}))
    /\ orig \in KnownInputs
    /\ bytes = orig
    /\ enc = NotDone
    /\ dec = NotDone

\* read_tag_known(bytes, tag_type)
ReadTagKnown(tag_type) ==
    /\ ~dec.done
    /\ dec' = [done |-> TRUE, of |-> bytes, tag_type |-> tag_type,
               parse |-> read_tag_known(bytes, tag_type)]
    /\ UNCHANGED <<doc, orig, bytes, enc>>

NextKnown ==
    \/ \E i \in 1 .. Len(orig), v \in DamagedBytes : Corrupt(i, v)
    \/ \E tag_type \in TagTypes : ReadTagKnown(tag_type)

SpecKnown == InitKnown /\ [][NextKnown]_vars

(***************************************************************************)
(* The type-id table, checked under SpecKnown.                             *)
(***************************************************************************)

\* the table of the data model: variant and id
TypeIds ==
    { <<"TagByte", 1>>, <<"TagShort", 2>>, <<"TagInt", 3>>, <<"TagLong", 4>>,
      <<"TagFloat", 5>>, <<"TagDouble", 6>>, <<"TagByteArray", 7>>,
      <<"TagString", 8>>, <<"TagList", 9>>, <<"TagCompound", 10>>,
      <<"TagIntArray", 11>>, <<"TagLongArray", 12>> }

\* C12: get_tag_id gives every value variant its id of the table, different
\* variants different ids, the ids being 1..12, and End no id; and whenever
\* read_tag_known succeeds for an id i, i is in 1..12 and the tag it returns
\* is of the variant whose get_tag_id is i.
C12_TypeIdTable ==
    /\ \A p \in TypeIds : get_tag_id(Tag(p[1], 0)) = Some(p[2])
    /\ \A p, q \in TypeIds :
          get_tag_id(Tag(p[1], 0)) = get_tag_id(Tag(q[1], 0)) => p = q
    /\ {get_tag_id(Tag(p[1], 0)).val : p \in TypeIds} = 1 .. 12
    /\ get_tag_id(TagEnd) = None
    /\ (dec.done /\ dec.parse.kind = "Ok") =>
          /\ dec.tag_type \in 1 .. 12
          /\ get_tag_id(dec.parse.val) = Some(dec.tag_type)

\* read_tag_known succeeded for the id 11 on damaged bytes on which it
\* succeeds for the id 12 too, with another tag
C12_Witness ==
    /\ dec.done
    /\ dec.of # orig
    /\ dec.tag_type = 11
    /\ dec.parse.kind = "Ok"
    /\ read_tag_known(dec.of, 12).kind = "Ok"
    /\ read_tag_known(dec.of, 12).val # dec.parse.val

(***************************************************************************)
(* Properties of the framing of names and Strings, checked under SpecText. *)
(***************************************************************************)

\* C13: read_tag_name, on the bytes that write_tag emitted for the name s
\* and the payload, returns s and leaves exactly the payload.
C13_NameRoundTrip ==
    dec.done =>
        /\ dec.kind = "Ok"
        /\ dec.val = doc.root_name
        /\ bytes = write_tag(doc.root, FALSE, FALSE, None, 0).val

(***************************************************************************)
(* Properties of the List parser, checked under SpecWire.                  *)
(***************************************************************************)

\* C14: every List that read_tag_list returned during a decode, for a
\* count field of 1 or more, has exactly as many elements as the count field
\* says (a List for a count field below 1 is the subject of C5).
C14_NoPartialList ==
    dec.done =>
        \A ev \in dec.parse.log :
            (ev[1] = "list" /\ ev[2] >= 1) => ev[3] = ev[2]

(***************************************************************************)
(* Properties of the array encoders, checked under Spec.                   *)
(***************************************************************************)

IsArray(tag) == tag[1] \in {"TagByteArray", "TagIntArray", "TagLongArray"}

\* the width in bytes of an element of an array
ElementWidth(tag) ==
    CASE tag[1] = "TagByteArray" -> 1
      [] tag[1] = "TagIntArray" -> 4
      [] tag[1] = "TagLongArray" -> 8

\* C15: for every array of a Document handed to as_bytes on which write_tag
\* returns Ok, the count field emitted is 1 or more and is the number of
\* elements that follow, and the array parser of the decoder reads the
\* payload back as the array.
C15_ArrayCountAtLeastOne ==
    enc.done =>
        \A tag \in Subtags(enc.of.root) :
            (IsArray(tag) /\ write_tag(tag, FALSE, FALSE, None, enc.seed).ok) =>
                LET out == write_tag(tag, FALSE, FALSE, None, enc.seed).val
                    back == read_tag_known(out, get_tag_id(tag).val)
                IN /\ be_signed(SubSeq(out, 1, 4)) >= 1
                   /\ be_signed(SubSeq(out, 1, 4)) = Len(tag[2])
                   /\ Len(out) = 4 + Len(tag[2]) * ElementWidth(tag)
                   /\ back.kind = "Ok"
                   /\ back.val = tag
                   /\ back.rest = <<>>

(***************************************************************************)
(* The length prefixes of the encoder, checked under SpecText.             *)
(***************************************************************************)

\* the offset in the output of write_tag at which the name begins, and the
\* offset at which the payload begins
NameOffset == IF enc.write_id THEN 1 ELSE 0
PayloadOffset ==
    IF enc.write_name THEN NameOffset + 2 + Len(doc.root_name) ELSE NameOffset

\* the two bytes of b at offset k are the number n, and the n bytes of text
\* follow them
Framed(b, k, text) ==
    /\ Len(b) >= k + 2 + Len(text)
    /\ be_unsigned16(SubSeq(b, k + 1, k + 2)) = Len(text)
    /\ SubSeq(b, k + 3, k + 2 + Len(text)) = text

\* C16: in the bytes that write_tag returned, the u16 prefix of the name is
\* the number of bytes of the name, which follow it, and the u16 prefix of a
\* String payload is the number of bytes of the String, which follow it and
\* end the output.
C16_LengthPrefix ==
    (enc.done /\ enc.ok /\ ~dec.done) =>
        /\ enc.write_name => Framed(bytes, NameOffset, doc.root_name)
        /\ doc.root[1] = "TagString" =>
              /\ Framed(bytes, PayloadOffset, doc.root[2])
              /\ Len(bytes) = PayloadOffset + 2 + Len(doc.root[2])

(***************************************************************************)
(* The order of the entries of a Compound, checked under Spec.             *)
(***************************************************************************)

\* C17: when as_bytes has emitted the bytes of a Document whose root has two
\* or more entries in one iteration order, it emits bytes in every other
\* order, of the same length and ending with the terminator 0x00, and the
\* bytes of both orders decode to one and the same Document.
C17_OrderIndependent ==
    (enc.done /\ enc.res.ok /\ enc.of.root[1] = "TagCompound"
        /\ Cardinality(enc.of.root[2]) >= 2) =>
        \A seed \in Seeds :
            LET other == as_bytes(enc.of, seed)
            IN /\ other.ok
               /\ Len(other.val) = Len(enc.res.val)
               /\ other.val[Len(other.val)] = 0
               /\ enc.res.val[Len(enc.res.val)] = 0
               /\ from_bytes(other.val).ok
               /\ from_bytes(enc.res.val).ok
               /\ from_bytes(other.val).val = from_bytes(enc.res.val).val

(***************************************************************************)
(* The end of a decode, checked under SpecWire.                            *)
(***************************************************************************)

\* the element loops of the decode of dec.of made no more turns than the
\* buffer has bytes: no List and no array has more elements than that, a
\* count field that is negative or larger than the buffer notwithstanding
TurnsBounded ==
    \A ev \in dec.parse.log :
        ev[1] \in {"list", "array"} => (ev[3] >= 1 /\ ev[3] <= Len(dec.of))

\* C18: every decode ends with a result or an error, Ok(Document) or Err
\* from from_bytes and Ok, Err(Error) or Err(Incomplete) from read_nbt_file,
\* after no more turns of the element loops than the buffer has bytes.
C18_DecodeTerminates ==
    dec.done =>
        /\ dec.parse.kind \in {"Ok", "Error", "Incomplete"}
        /\ DOMAIN dec.res \in {{"ok", "val"}, {"ok", "msg"}}
        /\ TurnsBounded

====
